---- MODULE Spec2Model ----
(***************************************************************************)
(* A model of the TRON database interface: the three scene components      *)
(* (building scene, node scene, mock node scene), their React lifecycle    *)
(* (fetch, mount effect, cleanup), the orbit camera handlers, the click    *)
(* picking handlers and the DatabaseBuilding highlight timer.              *)
(*                                                                         *)
(* Units.  Angles are integers in milliradians (0.005 rad per pixel is 5,  *)
(* 0.1 rad per key press is 100, Math.PI/3 is 1047).  The orbit radius is  *)
(* in world units.  camera.position.y is in thousandths of a world unit.   *)
(* The horizontal camera position (x, z) is kept in the coordinates the    *)
(* code computes it from: h = [ang, pit, rad] stands for                   *)
(*   x = sin(ang) * cos(pit) * rad,   z = cos(ang) * cos(pit) * rad,       *)
(* so that sqrt(x^2 + z^2) = rad whenever pit = 0.                         *)
(***************************************************************************)
EXTENDS Integers, Sequences, FiniteSets, TLC

(* ------------------------------ bounds -------------------------------- *)
\* |cameraAngleY| explored, in milliradians (the code never wraps the yaw)
MaxYaw == 250
\* number of W/S key presses explored per scene instance
MaxLift == 1
\* number of fetchTableData calls explored (the first one is the mount's)
MaxFetches == 2
\* number of render ticks explored per scene instance
MaxRaf == 2
\* number of highlight timeouts pending at once
MaxTimers == 2
\* block scale (hundredths) up to which a further pick is explored
MaxScale == 130

(* ------------------------- program constants -------------------------- *)
\* Math.PI / 3 in milliradians
MaxPitch == 1047
\* cameraAngleY += 0.1 in milliradians
KeyYawStep == 100
\* radius of handleMouseMove in the mock scene
MockDragRadius == 40

Variants == {"building", "node", "mock"}
\* the two DatabaseBuilding sources of the repository
BuildingFiles == {"part_000", "part_001"}
\* the JavaScript value undefined
Undefined == "(undefined)"

\* deltaX * 0.005 (building, node) and deltaX * 0.01 (mock), per pixel
Sensitivity(v) == IF v = "mock" THEN 10 ELSE 5
MinRadius(v) == IF v = "building" THEN 30 ELSE 10
MaxRadius(v) == IF v = "building" THEN 200 ELSE 100
\* event.deltaY * 0.2 (building) and event.deltaY * 0.1 (node, mock);
\* the wheel deltas explored are multiples of 10, so the result is exact
WheelStep(v, deltaY) == IF v = "building" THEN (2 * deltaY) \div 10 ELSE deltaY \div 10
\* const speed of handleKeyDown, in thousandths
KeySpeed(v) == IF v = "building" THEN 5000 ELSE 2000
\* the y of the target the handlers pass to camera.lookAt
HandlerTarget(v) == IF v = "building" THEN 20 ELSE 0

Abs(n) == IF n < 0 THEN 0 - n ELSE n
Min(a, b) == IF a < b THEN a ELSE b
Max(a, b) == IF a > b THEN a ELSE b
\* Math.max(lo, Math.min(hi, x))
Clamp(lo, hi, x) == Max(lo, Min(hi, x))

\* Math.PI * 2 in milliradians
TwoPi == 6283
\* Math.sin on [0, pi/2], argument in milliradians, result in thousandths
SinPos(x) ==
  LET x2 == (x * x) \div 1000
      x3 == (x2 * x) \div 1000
      x5 == (x3 * x2) \div 1000
  IN x - (x3 \div 6) + (x5 \div 120)
SinMilli(x) == IF x < 0 THEN 0 - SinPos(0 - x) ELSE SinPos(x)

(* ------------------------- JavaScript numbers ------------------------- *)
\* the values a count or recordCount can hold: a number, NaN, null or undefined
Num(n) == [t |-> "number", n |-> n]
NaN == [t |-> "NaN", n |-> 0]
Null == [t |-> "null", n |-> 0]
UndefinedValue == [t |-> "undefined", n |-> 0]

\* ToNumber: null is 0, undefined is NaN
ToNumber(v) ==
  IF v.t = "number" THEN v ELSE IF v.t = "null" THEN Num(0) ELSE NaN
\* x * 0.5 of a value in units, the result in tenths of a unit
TimesHalf(v) == IF ToNumber(v).t = "NaN" THEN NaN ELSE Num(ToNumber(v).n * 5)
\* Math.min(a, v) and Math.max(a, v): NaN whenever v is NaN
MathMin(a, v) == IF v.t = "NaN" THEN NaN ELSE Num(Min(a, v.n))
MathMax(a, v) == IF v.t = "NaN" THEN NaN ELSE Num(Max(a, v.n))
\* the truthiness || tests: NaN, null, undefined and 0 are falsy
Truthy(v) ==
  CASE v.t = "number" -> v.n # 0
    [] v.t = "string" -> v.n # 0
    [] v.t \in {"array", "arrayOfNull", "object"} -> TRUE
    [] OTHER -> FALSE

\* a fetch that passes the raw count on, used to test the layout of odd counts
RawCount(count) == count

\* recordCount: count || 0
RecordCountOf(count) == IF Truthy(count) THEN count ELSE Num(0)

(* ------------------------------- data --------------------------------- *)
Users ==
  [tableName |-> "users", recordCount |-> RecordCountOf(Num(8)),
   sampleData |-> << [hasId |-> TRUE, id |-> "u1"], [hasId |-> FALSE, id |-> ""] >>]
Posts ==
  [tableName |-> "posts", recordCount |-> RecordCountOf(Num(120)),
   sampleData |-> << [hasId |-> TRUE, id |-> "p1"] >>]
\* the lists a fetch can resolve to (validResults)
FetchResults == { <<>>, <<Users>>, <<Users, Posts>> }
\* the mock scene's tableNames, cut to the nodes a click is tried on
MockTables ==
  << [tableName |-> "users", recordCount |-> Num(100), sampleData |-> <<>>],
     [tableName |-> "posts", recordCount |-> Num(100), sampleData |-> <<>>] >>

\* pointer positions (clientX, clientY) the events are drawn from
Points == { <<0, 0>>, <<20, 0>>, <<50, 400>> }
\* event.deltaY of the wheel events
WheelDeltas == { 0 - 100000, 500, 100000 }
KeyCodes == {"KeyW", "ArrowUp", "KeyS", "ArrowDown",
             "KeyA", "ArrowLeft", "KeyD", "ArrowRight"}
IsUpKey(code) == code \in {"KeyW", "ArrowUp"}
IsDownKey(code) == code \in {"KeyS", "ArrowDown"}
IsLeftKey(code) == code \in {"KeyA", "ArrowLeft"}
IsRightKey(code) == code \in {"KeyD", "ArrowRight"}
IsRotateKey(code) == IsLeftKey(code) \/ IsRightKey(code)

VARIABLES
  variant,         \* which scene component runs
  buildingFile,    \* which DatabaseBuilding source the building scene imports
  lastCall,        \* <<building, object>> of the last DatabaseBuilding.handleClick call
  loading,         \* useState loading
  tablesData,      \* useState tablesData
  shownFetch,      \* the fetchTableData call whose result tablesData holds (0 = none)
  selected,        \* selectedNode / selectedRecord ("none" = null)
  inFlight,        \* fetchTableData calls awaiting their response
  started,         \* number of fetchTableData calls so far
  mountRef,        \* mountRef.current: 0 = null, n = the n-th mount div
  divs,            \* number of mount divs rendered so far
  unmounted,       \* the component has been unmounted
  scene,           \* the effect instance: live (listeners registered), gen, tables,
                   \* canvasParent (0 = detached), disposed, rnd (its Math.random draws)
  thrown,          \* a cleanup has thrown
  animationIdRef,  \* animationIdRef.current: <<scene gen, n>>, <<0, 0>> = undefined
  rafPending,      \* requestAnimationFrame handles still scheduled
  cameraAngleY, cameraAngleX, cameraRadius,
  isMouseDown, lastMouseX, lastMouseY,
  camera,          \* camera.position (h, y) and the last camera.lookAt (look)
  lifts,           \* W/S key presses handled by the current scene instance
  pointer,         \* where the pointer is
  button,          \* the physical button: "up" or "down"
  pendingClick,    \* a click event follows the last mouseup
  blockScale,      \* block.scale of every DatabaseBuilding block still referenced, in hundredths
  timers,          \* pending setTimeout callbacks of handleClick
  lastHits,        \* what the ray of the click dispatched last met (<<>> after any other input)
  moved,           \* pointer travel of the gesture in progress (see Travelled)
  lastButtonEvt,   \* the last pointer-button event this scene's listeners handled
  downX,           \* clientX of the mousedown of the drag in progress
  dragYaw,         \* yaw change made by the moves of the drag in progress
  constructed,     \* the last new DatabaseBuilding(...) made outside a scene: its
                   \* sampleData, whether it threw, its block count, whether it is placed
  hashed,          \* the last getBlockColor call: the serialized record, its hash, its color
  blockAnim,       \* position (x, y, z) and userData.baseY (0 = not set) of every block
                   \* of the live building scene, in hundredths
  clock,           \* Date.now(), in milliseconds since the page was loaded
  hud,             \* the HUD table list: the entry clicked last, useState selectedTable,
                   \* the target the click pointed the camera at, whether onClick threw
  freeLook         \* the free-look TronGame: mouseX, mouseY, camera.rotation.x / .y and
                   \* the frames animated so far

reactVars == <<loading, tablesData, shownFetch, selected, inFlight, started, mountRef, divs, unmounted>>
sceneVars == <<scene, thrown, animationIdRef, rafPending>>
camVars == <<cameraAngleY, cameraAngleX, cameraRadius, isMouseDown, lastMouseX,
             lastMouseY, camera, lifts>>
envVars == <<pointer, button, pendingClick>>
pickVars == <<blockScale, timers>>
obsVars == <<lastHits, moved, lastButtonEvt, downX, dragYaw>>
unitVars == <<constructed, hashed, hud, freeLook>>
animVars == <<blockAnim, clock>>
vars == <<variant, buildingFile, unitVars, animVars, lastCall, reactVars, sceneVars, camVars, envVars, pickVars, obsVars>>

(* ------------------------------ camera -------------------------------- *)
\* camera.position.set(0, 50, 100) / (0, 20, 30); camera.lookAt(0, 0, 0)
InitialCamera(v) ==
  LET h == [ang |-> 0, pit |-> 0, rad |-> IF v = "building" THEN 100 ELSE 30]
      y == IF v = "building" THEN 50000 ELSE 20000
  IN [h |-> h, y |-> y, look |-> [target |-> 0, h |-> h, y |-> y]]

\* camera.lookAt(0, target, 0): the orientation follows from the position it is called at
LookAt(cam, target) ==
  [cam EXCEPT !.look = [target |-> target, h |-> cam.h, y |-> cam.y]]

\* camera.position.x / .z of the building scene: sin/cos(yaw) * cos(pitch) * radius
OrbitH(yaw, pitch, radius) == [ang |-> yaw, pit |-> pitch, rad |-> radius]
\* camera.position.y of the building scene: Math.sin(cameraAngleX) * cameraRadius + 30
OrbitY(pitch, radius) == SinMilli(pitch) * radius + 30000

\* Math.sqrt(camera.position.x ** 2 + camera.position.z ** 2), node and mock scenes
\* (their positions always have pit = 0)
HorizRadius(cam) == cam.h.rad

\* variants of the three updates, used to test the camera properties
NewYawAdded(v, yaw, deltaX) == yaw + deltaX * (IF v = "mock" THEN 10 ELSE 5)
NewRadiusUnclamped(v, radius, deltaY) == radius + WheelStep(v, deltaY)

\* cameraAngleY -= deltaX * sensitivity
NewYaw(v, yaw, deltaX) == yaw - deltaX * Sensitivity(v)
\* Math.max(-Math.PI/3, Math.min(Math.PI/3, cameraAngleX - deltaY * 0.005))
NewPitch(pitch, deltaY) == Clamp(0 - MaxPitch, MaxPitch, pitch - deltaY * 5)
\* Math.max(min, Math.min(max, radius + event.deltaY * step))
NewRadius(v, radius, deltaY) ==
  Clamp(MinRadius(v), MaxRadius(v), radius + WheelStep(v, deltaY))

handleMouseDown(p) ==
  /\ isMouseDown' = TRUE
  /\ lastMouseX' = p[1]
  /\ lastMouseY' = IF variant = "building" THEN p[2] ELSE lastMouseY
  /\ UNCHANGED <<cameraAngleY, cameraAngleX, cameraRadius, camera, lifts>>

\* a mouseup handler that leaves the flag alone, used to test the drag state
handleMouseUpIgnored == UNCHANGED camVars

handleMouseUp ==
  /\ isMouseDown' = FALSE
  /\ UNCHANGED <<cameraAngleY, cameraAngleX, cameraRadius, lastMouseX, lastMouseY,
                 camera, lifts>>

\* the camera after a drag move to p
MovedCamera(p) ==
  LET yaw == NewYaw(variant, cameraAngleY, p[1] - lastMouseX)
      pitch == NewPitch(cameraAngleX, p[2] - lastMouseY)
  IN IF variant = "building"
     THEN LookAt([camera EXCEPT !.h = OrbitH(yaw, pitch, cameraRadius),
                                !.y = OrbitY(pitch, cameraRadius)], HandlerTarget(variant))
     ELSE LookAt([camera EXCEPT
                    !.h = OrbitH(yaw, 0, IF variant = "mock" THEN MockDragRadius
                                         ELSE HorizRadius(camera))], HandlerTarget(variant))

handleMouseMove(p) ==
  IF isMouseDown
  THEN /\ cameraAngleY' = NewYaw(variant, cameraAngleY, p[1] - lastMouseX)
       /\ cameraAngleX' = IF variant = "building"
                          THEN NewPitch(cameraAngleX, p[2] - lastMouseY)
                          ELSE cameraAngleX
       /\ lastMouseX' = p[1]
       /\ lastMouseY' = IF variant = "building" THEN p[2] ELSE lastMouseY
       /\ camera' = MovedCamera(p)
       /\ UNCHANGED <<cameraRadius, isMouseDown, lifts>>
  ELSE UNCHANGED camVars

\* the camera after a wheel event
ZoomedCamera(deltaY) ==
  IF variant = "building"
  THEN LET r == NewRadius(variant, cameraRadius, deltaY)
       IN LookAt([camera EXCEPT !.h = OrbitH(cameraAngleY, cameraAngleX, r),
                                !.y = OrbitY(cameraAngleX, r)], HandlerTarget(variant))
  ELSE LET newRadius == NewRadius(variant, HorizRadius(camera), deltaY)
       IN LookAt([camera EXCEPT !.h = OrbitH(cameraAngleY, 0, newRadius)],
                 HandlerTarget(variant))

handleWheel(deltaY) ==
  /\ cameraRadius' = IF variant = "building"
                     THEN NewRadius(variant, cameraRadius, deltaY)
                     ELSE cameraRadius
  /\ camera' = ZoomedCamera(deltaY)
  /\ UNCHANGED <<cameraAngleY, cameraAngleX, isMouseDown, lastMouseX, lastMouseY, lifts>>

\* cameraAngleY after the switch of handleKeyDown
KeyYaw(code) ==
  IF IsLeftKey(code) THEN cameraAngleY + KeyYawStep
  ELSE IF IsRightKey(code) THEN cameraAngleY - KeyYawStep
  ELSE cameraAngleY

\* the camera after handleKeyDown
KeyedCamera(code) ==
  LET speed == KeySpeed(variant)
      lifted == IF IsUpKey(code) THEN [camera EXCEPT !.y = @ + speed]
                ELSE IF IsDownKey(code)
                THEN [camera EXCEPT !.y = IF variant = "building"
                                          THEN Max(5000, @ - speed) ELSE @ - speed]
                ELSE camera
  IN IF IsRotateKey(code)
     THEN IF variant = "building"
          THEN LookAt([lifted EXCEPT
                         !.h = OrbitH(KeyYaw(code), cameraAngleX, cameraRadius)],
                      HandlerTarget(variant))
          ELSE LookAt([lifted EXCEPT
                         !.h = OrbitH(KeyYaw(code), 0, HorizRadius(lifted))],
                      HandlerTarget(variant))
     ELSE lifted

handleKeyDown(code) ==
  /\ cameraAngleY' = KeyYaw(code)
  /\ camera' = KeyedCamera(code)
  /\ lifts' = IF IsRotateKey(code) THEN lifts ELSE lifts + 1
  /\ UNCHANGED <<cameraAngleX, cameraRadius, isMouseDown, lastMouseX, lastMouseY>>

(* --------------------------- scene lifecycle -------------------------- *)
NoHandle == <<0, 0>>
NoScene == [live |-> FALSE, gen |-> 0, tables |-> <<>>, canvasParent |-> 0,
            disposed |-> FALSE, rnd |-> 0]
\* what Math.random() returns while createDataNodes of the mock scene runs, in tenths
RandomDraws == {0, 9}

\* what the cleanup closure reads and writes
World(mount) ==
  [mount |-> mount, canvasParent |-> scene.canvasParent, listeners |-> scene.live,
   disposed |-> scene.disposed, animationId |-> animationIdRef,
   rafPending |-> rafPending, threw |-> FALSE]

\* the building scene removes the canvas only if mountRef.current contains it;
\* the node and mock scenes call removeChild whenever mountRef.current is set
RemovesCanvas(v, w) ==
  IF v = "building" THEN w.mount # 0 /\ w.canvasParent = w.mount ELSE w.mount # 0

\* a cleanup without cancelAnimationFrame, used to test the frame loop
cleanupKeepsLoop(v, w) ==
  LET throws == RemovesCanvas(v, w) /\ w.canvasParent # w.mount
  IN [w EXCEPT
        !.listeners = FALSE,
        !.canvasParent = IF RemovesCanvas(v, w) /\ ~throws THEN 0 ELSE @,
        !.threw = throws,
        !.disposed = IF throws THEN @ ELSE TRUE]

\* the function the effect returns: cancelAnimationFrame, removeEventListener,
\* removeChild (throws NotFoundError when the canvas is not a child), dispose
cleanup(v, w) ==
  LET throws == RemovesCanvas(v, w) /\ w.canvasParent # w.mount
  IN [w EXCEPT
        !.rafPending = IF w.animationId # NoHandle THEN @ \ {w.animationId} ELSE @,
        !.listeners = FALSE,
        !.canvasParent = IF RemovesCanvas(v, w) /\ ~throws THEN 0 ELSE @,
        !.threw = throws,
        !.disposed = IF throws THEN @ ELSE TRUE]

\* the effect runs its body only with a mount div and a non-empty list
\* (the mock scene has no list to wait for)
EffectRuns(v, mount, tables) ==
  IF v = "mock" THEN mount # 0 ELSE mount # 0 /\ Len(tables) > 0

\* the blocks createDataBlocks makes for scene instance gen: one per sample record
BlocksOf(gen, tables) ==
  UNION { { [gen |-> gen, b |-> b, rec |-> j] :
              j \in 1..Len(tables[b].sampleData) } : b \in 1..Len(tables) }

\* what a click's ray can be tested against: the cubes of the node scenes
\* (scene.children with userData.tableData / tableName), the blocks of the buildings
Candidates ==
  IF ~scene.live THEN {}
  ELSE IF variant = "building" THEN BlocksOf(scene.gen, scene.tables)
  ELSE { [gen |-> scene.gen, b |-> b, rec |-> 0] : b \in 1..Len(scene.tables) }

\* raycaster.intersectObjects: the candidates the ray meets, nearest first
RayHits(cands) ==
  {<<>>} \cup { <<c>> : c \in cands }
         \cup { h \in cands \X cands : h[1] # h[2] }

\* the blocks the pending timeout callbacks hold
TimerBlocks(ts) == { ts[i].block : i \in 1..Len(ts) }

\* the blocks still referenced once the scene is as in sc and the timeouts are ts:
\* those of the live scene and those a pending callback holds
Referenced(sc, ts) ==
  (IF sc.live /\ variant = "building" THEN BlocksOf(sc.gen, sc.tables) ELSE {})
    \cup TimerBlocks(ts)

\* getBlockColor has not been called
NotHashed == [called |-> FALSE, str |-> <<>>, hash |-> 0, color |-> [hue |-> 0]]

\* no DatabaseBuilding has been constructed outside a scene
NotConstructed ==
  [called |-> FALSE, sampleData |-> UndefinedValue, threw |-> FALSE, blocks |-> 0,
   placed |-> FALSE]

Init ==
  /\ variant \in Variants
  /\ buildingFile \in IF variant = "building" THEN BuildingFiles ELSE {"none"}
  /\ lastCall = <<>>
  /\ loading = (variant # "mock")
  /\ tablesData = <<>>
  /\ shownFetch = 0
  /\ selected = <<>>
  /\ inFlight = IF variant = "mock" THEN {} ELSE {1}
  /\ started = IF variant = "mock" THEN 0 ELSE 1
  /\ mountRef = IF variant = "mock" THEN 1 ELSE 0
  /\ divs = IF variant = "mock" THEN 1 ELSE 0
  /\ unmounted = FALSE
  /\ scene \in IF variant = "mock"
               THEN { [live |-> TRUE, gen |-> 1, tables |-> MockTables, canvasParent |-> 1,
                       disposed |-> FALSE, rnd |-> r] : r \in RandomDraws }
               ELSE {NoScene}
  /\ thrown = FALSE
  /\ animationIdRef = IF variant = "mock" THEN <<1, 1>> ELSE NoHandle
  /\ rafPending = IF variant = "mock" THEN {<<1, 1>>} ELSE {}
  /\ cameraAngleY = 0
  /\ cameraAngleX = 0
  /\ cameraRadius = IF variant = "building" THEN 100 ELSE 0
  /\ isMouseDown = FALSE
  /\ lastMouseX = 0
  /\ lastMouseY = 0
  /\ camera = InitialCamera(variant)
  /\ lifts = 0
  /\ pointer = <<0, 0>>
  /\ button = "up"
  /\ pendingClick = FALSE
  /\ blockScale = << >>
  /\ timers = <<>>
  /\ lastHits = <<>>
  /\ moved = 0
  /\ lastButtonEvt = "none"
  /\ downX = 0
  /\ dragYaw = 0
  /\ constructed = NotConstructed
  /\ hashed = NotHashed
  /\ hud = [clicked |-> "none", selectedTable |-> "none", target |-> "none", threw |-> FALSE]
  /\ blockAnim = << >>
  /\ clock = 0
  /\ freeLook = [mouseX |-> 0, mouseY |-> 0, rotationX |-> 0, rotationY |-> 0, frames |-> 0]

\* the closure variables and the camera a scene instance starts with
FreshCamera ==
  /\ cameraAngleY' = 0
  /\ cameraAngleX' = 0
  /\ cameraRadius' = IF variant = "building" THEN 100 ELSE 0
  /\ isMouseDown' = FALSE
  /\ lastMouseX' = 0
  /\ lastMouseY' = 0
  /\ camera' = InitialCamera(variant)
  /\ lifts' = 0
  /\ lastButtonEvt' = "none"
  /\ downX' = 0
  /\ dragYaw' = 0

\* const recordsPerFloor = 4 (part_000) / 6 (part_001)
recordsPerFloor == IF buildingFile = "part_001" THEN 6 ELSE 4

\* a block position that ignores the floor, used to test the block grid
BlockPositionOnGround(index) ==
  [x |-> (2 * ((index % recordsPerFloor) % 2) - 1) * 200, y |-> 610,
   z |-> (2 * ((index % recordsPerFloor) \div 2) - 1) * 200]

\* block.position.set(gridX * 4, floorHeight + floor * floorHeight + blockSize/2 + 2,
\* gridZ * 4) of part_000 and (gridX * 3, floorHeight + floor * floorHeight +
\* blockSize/2, gridZ * 3) of part_001, in hundredths of a unit
BlockPosition(index) ==
  LET floor == index \div recordsPerFloor
      positionOnFloor == index % recordsPerFloor
  IN IF buildingFile = "part_001"
     THEN [x |-> ((positionOnFloor % 3) - 1) * 300,
           y |-> 400 + floor * 400 + 75,
           z |-> (2 * (positionOnFloor \div 3) - 1) * 150]
     ELSE [x |-> (2 * (positionOnFloor % 2) - 1) * 200,
           y |-> 350 + floor * 350 + 60 + 200,
           z |-> (2 * (positionOnFloor \div 2) - 1) * 200]

\* a block as createDataBlocks leaves it: at its grid position, userData.baseY not set
NewBlock(index) ==
  [x |-> BlockPosition(index).x, y |-> BlockPosition(index).y,
   z |-> BlockPosition(index).z, baseY |-> 0]

\* Math.sin of an angle in milliradians, in thousandths, within [-1, 1]
MathSin(x) ==
  LET r == x % TwoPi
      half == TwoPi \div 2
      quarter == TwoPi \div 4
  IN IF r <= quarter THEN Min(1000, SinPos(r))
     ELSE IF r <= half THEN Min(1000, SinPos(half - r))
     ELSE IF r <= half + quarter THEN 0 - Min(1000, SinPos(r - half))
     ELSE 0 - Min(1000, SinPos(Max(0, TwoPi - r)))

\* the float amplitude, in hundredths: 0.2 (part_000), 0.3 (part_001)
FloatAmplitude == IF buildingFile = "part_001" THEN 30 ELSE 20
\* time * 1.5 + index (part_000), time * 2 + index (part_001), time = Date.now() * 0.001,
\* in milliradians
FloatPhase(index, now) ==
  (IF buildingFile = "part_001" THEN 2 * now ELSE (15 * now) \div 10) + index * 1000

\* a baseY read from the block's position in every frame, used to test the drift
baseYDrifting(block) == block.y

\* const baseY = block.userData.baseY || block.position.y
baseYOf(block) == IF block.baseY # 0 THEN block.baseY ELSE block.y

\* the body of update() for one block: block.userData.baseY = baseY;
\* block.position.y = baseY + Math.sin(...) * amplitude (rotation and emissive
\* intensity, which update also sets, are not kept)
update(block, index, now) ==
  [block EXCEPT !.baseY = baseYOf(block),
                !.y = baseYOf(block)
                        + (MathSin(FloatPhase(index, now)) * FloatAmplitude) \div 1000]

\* the [tablesData] effect after a render with mount div `mount` and list `tables`:
\* the previous instance's cleanup (if it returned one), then the effect body
RunEffect(mount, tables) ==
  LET w == IF scene.live THEN cleanup(variant, World(mount)) ELSE World(mount)
      gen == scene.gen + 1
  IN /\ thrown' = (thrown \/ w.threw)
     /\ IF EffectRuns(variant, mount, tables)
        THEN /\ scene' = [live |-> TRUE, gen |-> gen, tables |-> tables,
                          canvasParent |-> mount, disposed |-> FALSE, rnd |-> 0]
             /\ animationIdRef' = <<gen, 1>>
             /\ rafPending' = w.rafPending \cup {<<gen, 1>>}
             /\ blockScale' = [b \in TimerBlocks(timers) \cup BlocksOf(gen, tables) |->
                                 IF b \in DOMAIN blockScale THEN blockScale[b] ELSE 100]
             /\ blockAnim' = IF variant = "building"
                             THEN [b \in BlocksOf(gen, tables) |-> NewBlock(b.rec - 1)]
                             ELSE << >>
        ELSE /\ scene' = [scene EXCEPT !.live = FALSE, !.canvasParent = w.canvasParent,
                                       !.disposed = w.disposed]
             /\ animationIdRef' = animationIdRef
             /\ rafPending' = w.rafPending
             /\ blockScale' = [b \in TimerBlocks(timers) |-> blockScale[b]]
             /\ blockAnim' = << >>
     /\ FreshCamera

(* ------------------------- React component steps ---------------------- *)
\* the mount div after a render that ends the loading screen
RenderedMount == IF loading THEN divs + 1 ELSE mountRef

\* fetchTableData is called again (REFRESH, the create dialog, after an update or delete)
Refresh ==
  /\ variant = "building" /\ ~unmounted /\ ~pendingClick
  /\ started < MaxFetches
  /\ started' = started + 1
  /\ inFlight' = inFlight \cup {started + 1}
  /\ loading' = TRUE
  /\ mountRef' = 0
  /\ UNCHANGED <<variant, buildingFile, unitVars, animVars, lastCall, tablesData, shownFetch, selected, divs, unmounted, sceneVars, camVars,
                 envVars, pickVars, obsVars>>

\* a fetch resolves: setTablesData(validResults), setLoading(false), one render,
\* then the [tablesData] effect
FetchResolve(id, validResults) ==
  /\ id \in inFlight /\ ~pendingClick
  /\ inFlight' = inFlight \ {id}
  /\ IF unmounted
     THEN UNCHANGED <<loading, tablesData, shownFetch, mountRef, divs, sceneVars, camVars,
                      blockScale, blockAnim, lastButtonEvt, downX, dragYaw>>
     ELSE /\ tablesData' = validResults
          /\ shownFetch' = id
          /\ loading' = FALSE
          /\ mountRef' = RenderedMount
          /\ divs' = RenderedMount
          /\ RunEffect(RenderedMount, validResults)
  /\ UNCHANGED <<variant, buildingFile, unitVars, clock, lastCall, selected, started,
                 unmounted, envVars, timers, lastHits, moved>>

\* a fetch fails: the catch branch, then setLoading(false); tablesData is not set,
\* so the effect does not run
FetchFail(id) ==
  /\ id \in inFlight /\ ~pendingClick
  /\ inFlight' = inFlight \ {id}
  /\ IF unmounted
     THEN UNCHANGED <<loading, mountRef, divs>>
     ELSE /\ loading' = FALSE
          /\ mountRef' = RenderedMount
          /\ divs' = RenderedMount
  /\ UNCHANGED <<variant, buildingFile, unitVars, animVars, lastCall, tablesData, shownFetch, selected, started, unmounted, sceneVars, camVars,
                 envVars, pickVars, obsVars>>

\* the component unmounts: React detaches the ref, then runs the cleanup
Unmount ==
  /\ ~unmounted /\ ~pendingClick
  /\ unmounted' = TRUE
  /\ mountRef' = 0
  /\ LET w == IF scene.live THEN cleanup(variant, World(0)) ELSE World(0)
     IN /\ scene' = [scene EXCEPT !.live = FALSE, !.canvasParent = w.canvasParent,
                                  !.disposed = w.disposed]
        /\ rafPending' = w.rafPending
        /\ thrown' = (thrown \/ w.threw)
  /\ blockScale' = [b \in TimerBlocks(timers) |-> blockScale[b]]
  /\ blockAnim' = << >>
  /\ FreshCamera
  /\ UNCHANGED <<variant, buildingFile, unitVars, clock, lastCall, loading, tablesData, shownFetch, selected, inFlight, started, divs,
                 animationIdRef, envVars, timers, lastHits, moved>>

\* the handle animate stores for its next frame
NextHandle(h) == <<h[1], h[2] + 1>>

\* Date.now() advances
TimePasses(t) ==
  /\ t > clock
  /\ clock' = t
  /\ UNCHANGED <<variant, buildingFile, unitVars, blockAnim, lastCall, reactVars, sceneVars,
                 camVars, envVars, pickVars, obsVars>>

\* animate: a scheduled frame callback runs, schedules the next one and calls
\* update() of every building in buildingsRef.current
RenderTick(h) ==
  /\ h \in rafPending
  /\ h[2] <= MaxRaf
  /\ animationIdRef' = NextHandle(h)
  /\ rafPending' = (rafPending \ {h}) \cup {NextHandle(h)}
  /\ blockAnim' = [b \in DOMAIN blockAnim |-> update(blockAnim[b], b.rec - 1, clock)]
  /\ UNCHANGED <<variant, buildingFile, unitVars, clock, lastCall, reactVars, scene, thrown, camVars, envVars, pickVars, obsVars>>

(* ------------------------------ input events -------------------------- *)
\* pointer travel since the last mousedown, in pixels: exact below 2, then the
\* classes "2 or more" (2) and "50 or more" (50)
Travelled(m, d) ==
  IF m + d >= 50 THEN 50 ELSE IF m + d >= 2 THEN 2 ELSE m + d

MouseDown ==
  /\ ~unmounted /\ ~pendingClick /\ button = "up"
  /\ button' = "down"
  /\ moved' = 0
  /\ lastHits' = <<>>
  /\ IF scene.live
     THEN /\ handleMouseDown(pointer)
          /\ lastButtonEvt' = "down"
          /\ downX' = pointer[1]
          /\ dragYaw' = 0
     ELSE UNCHANGED <<camVars, lastButtonEvt, downX, dragYaw>>
  /\ UNCHANGED <<variant, buildingFile, unitVars, animVars, lastCall, reactVars, sceneVars, pointer, pendingClick, pickVars>>

MouseUp ==
  /\ ~unmounted /\ ~pendingClick /\ button = "down"
  /\ button' = "up"
  /\ pendingClick' = TRUE
  /\ lastHits' = <<>>
  /\ IF scene.live
     THEN handleMouseUp /\ lastButtonEvt' = "up" /\ downX' = 0 /\ dragYaw' = 0
     ELSE UNCHANGED <<camVars, lastButtonEvt, downX, dragYaw>>
  /\ UNCHANGED <<variant, buildingFile, unitVars, animVars, lastCall, reactVars, sceneVars, pointer, pickVars, moved>>

MouseMove(p) ==
  /\ ~unmounted /\ ~pendingClick /\ p # pointer
  /\ scene.live /\ isMouseDown =>
       Abs(NewYaw(variant, cameraAngleY, p[1] - lastMouseX)) <= MaxYaw
  /\ pointer' = p
  /\ moved' = IF button = "down"
              THEN Travelled(moved, Abs(p[1] - pointer[1]) + Abs(p[2] - pointer[2]))
              ELSE moved
  /\ lastHits' = <<>>
  /\ IF scene.live
     THEN /\ handleMouseMove(p)
          /\ dragYaw' = IF isMouseDown THEN dragYaw + (cameraAngleY' - cameraAngleY) ELSE 0
     ELSE UNCHANGED <<camVars, dragYaw>>
  /\ UNCHANGED <<variant, buildingFile, unitVars, animVars, lastCall, reactVars, sceneVars, button, pendingClick, pickVars,
                 lastButtonEvt, downX>>

Wheel(deltaY) ==
  /\ ~unmounted /\ ~pendingClick /\ scene.live
  /\ handleWheel(deltaY)
  /\ lastHits' = <<>>
  /\ UNCHANGED <<variant, buildingFile, unitVars, animVars, lastCall, reactVars, sceneVars, envVars, pickVars, moved, lastButtonEvt,
                 downX, dragYaw>>

KeyDown(code) ==
  /\ ~unmounted /\ ~pendingClick /\ scene.live
  /\ Abs(KeyYaw(code)) <= MaxYaw
  /\ ~IsRotateKey(code) => lifts < MaxLift
  /\ handleKeyDown(code)
  /\ lastHits' = <<>>
  /\ UNCHANGED <<variant, buildingFile, unitVars, animVars, lastCall, reactVars, sceneVars, envVars, pickVars, moved, lastButtonEvt,
                 downX, dragYaw>>

\* a handleClick that takes the last intersection, used to test which hit is picked
handleClickFarthest(hits) ==
  IF ~isMouseDown /\ Len(hits) > 0
  THEN selected' = << scene.tables[hits[Len(hits)].b] >>
  ELSE selected' = selected

\* handleClick of the node and mock scenes: the nearest cube becomes the selection
\* (its emissive highlight follows the selection)
handleClick(hits) ==
  IF ~isMouseDown /\ Len(hits) > 0
  THEN selected' = << scene.tables[hits[1].b] >>
  ELSE selected' = selected

\* the browser dispatches click after mouseup; the building scene registers no
\* click listener
Click(hits) ==
  /\ pendingClick
  /\ pendingClick' = FALSE
  /\ lastHits' = hits
  /\ moved' = 0
  /\ IF scene.live /\ variant # "building"
     THEN handleClick(hits)
     ELSE selected' = selected
  /\ UNCHANGED <<variant, buildingFile, unitVars, animVars, lastCall, loading, tablesData, shownFetch, inFlight, started, mountRef, divs,
                 unmounted, sceneVars, camVars, pointer, button, pickVars,
                 lastButtonEvt, downX, dragYaw>>

(* ------------------------- DatabaseBuilding ---------------------------- *)
\* record.id: undefined when the record has no id field
IdOf(record) == IF record.hasId THEN record.id ELSE Undefined

\* block.userData.recordId: record.id || index.toString() (part_000), record.id (part_001)
RecordIdOf(record, index) ==
  IF buildingFile = "part_001" THEN IdOf(record)
  ELSE IF record.hasId THEN record.id ELSE ToString(index)

\* block.scale.multiplyScalar(1.3) (part_000) / multiplyScalar(1.2) (part_001), in hundredths
Highlighted(scale) ==
  IF buildingFile = "part_001" THEN (scale * 12) \div 10 ELSE (scale * 13) \div 10

\* onRecordClick(tableId, block.userData.recordId, block.userData.record) with
\* handleRecordClick as the callback: setSelectedRecord({tableId, recordId, data})
handleRecordClick(block) ==
  << [tableId |-> scene.tables[block.b].tableName,
      recordId |-> RecordIdOf(scene.tables[block.b].sampleData[block.rec], block.rec - 1),
      data |-> scene.tables[block.b].sampleData[block.rec]] >>

\* the meshes and lines a building's group holds besides its record blocks
PartKinds == {"structure", "frame", "base", "label", "line"}
PartsOf(gen, tables) ==
  { [gen |-> gen, b |-> b, rec |-> 0, part |-> k] : b \in 1..Len(tables), k \in PartKinds }

\* a recordBlocks that holds the blocks of every building, used to test what
\* handleClick accepts
recordBlocksOfScene(b) == BlocksOf(scene.gen, scene.tables)

\* this.recordBlocks of the b-th building of the live scene
recordBlocks(b) == { block \in BlocksOf(scene.gen, scene.tables) : block.b = b }
getIntersectableObjects(b) == recordBlocks(b)

\* the objects of the live scene a caller can hand to handleClick
SceneObjects == BlocksOf(scene.gen, scene.tables) \cup PartsOf(scene.gen, scene.tables)

\* a handleClick body that highlights without calling onRecordClick, used to test
\* the callback's timing
PickBlockSilently(block) ==
  /\ variant = "building" /\ scene.live /\ ~pendingClick
  /\ block \in BlocksOf(scene.gen, scene.tables)
  /\ Len(timers) < MaxTimers /\ blockScale[block] <= MaxScale
  /\ blockScale' = [blockScale EXCEPT ![block] = Highlighted(@)]
  /\ timers' = Append(timers, [block |-> block, originalScale |-> blockScale[block]])
  /\ UNCHANGED <<variant, buildingFile, unitVars, animVars, reactVars, sceneVars, camVars, envVars, obsVars>>

\* the body of DatabaseBuilding.handleClick once recordBlocks.find has found the
\* block: scale up, schedule the revert, call onRecordClick
PickBlock(block) ==
  /\ variant = "building" /\ scene.live /\ ~pendingClick
  /\ block \in BlocksOf(scene.gen, scene.tables)
  /\ Len(timers) < MaxTimers /\ blockScale[block] <= MaxScale
  /\ blockScale' = [blockScale EXCEPT ![block] = Highlighted(@)]
  /\ timers' = Append(timers, [block |-> block, originalScale |-> blockScale[block]])
  /\ selected' = handleRecordClick(block)
  /\ UNCHANGED <<variant, buildingFile, unitVars, animVars, loading, tablesData, shownFetch, inFlight, started, mountRef, divs,
                 unmounted, sceneVars, camVars, envVars, obsVars>>

\* DatabaseBuilding.handleClick(intersectedObject) of the b-th building:
\* recordBlocks.find(b => b === intersectedObject), then the body above if found
DatabaseBuildingHandleClick(b, intersectedObject) ==
  /\ variant = "building" /\ scene.live /\ ~pendingClick
  /\ b \in 1..Len(scene.tables) /\ intersectedObject \in SceneObjects
  /\ lastCall' = <<b, intersectedObject>>
  /\ IF intersectedObject \in recordBlocks(b)
     THEN PickBlock(intersectedObject)
     ELSE UNCHANGED <<variant, buildingFile, unitVars, animVars, reactVars, sceneVars, camVars, envVars,
                      pickVars, obsVars>>

\* the setTimeout callback: block.scale.copy(originalScale)
TimerFire ==
  /\ timers # <<>> /\ ~pendingClick
  /\ timers' = Tail(timers)
  /\ blockScale' = [b \in Referenced(scene, Tail(timers)) |->
                      IF b = Head(timers).block THEN Head(timers).originalScale
                      ELSE blockScale[b]]
  /\ UNCHANGED <<variant, buildingFile, unitVars, animVars, lastCall, reactVars, sceneVars, camVars, envVars, obsVars>>

(* ------------------------------- layout ------------------------------- *)
\* const radius = 60 of createBuilding
CircleRadius == 60

\* a height without the clamp, used to test the height bounds
buildingHeightUnclamped(recordCount) == TimesHalf(recordCount)

\* this.buildingHeight = Math.max(20, Math.min(80, tableData.recordCount * 0.5)),
\* in tenths of a unit
buildingHeight(recordCount) == MathMax(200, MathMin(800, TimesHalf(recordCount)))

\* an angle counted from the next index, used to test the placement
BuildingAngleOfNext(index, totalTables) == ((index + 1) * TwoPi) \div totalTables

\* const angle = (index / totalTables) * Math.PI * 2, in milliradians
BuildingAngle(index, totalTables) == (index * TwoPi) \div totalTables

\* createBuilding: this.group.position.set(cos(angle) * radius, 0, sin(angle) * radius),
\* kept as the angle and radius it is computed from
createBuilding(index, totalTables) ==
  [ang |-> BuildingAngle(index, totalTables), rad |-> CircleRadius, y |-> 0]

\* createDataBlocks: one block position per sample record
createDataBlocks(tableData) ==
  [j \in 1..Len(tableData.sampleData) |-> BlockPosition(j - 1)]

\* new DatabaseBuilding(tableData, index, totalTables, handleRecordClick)
DatabaseBuilding(tableData, index, totalTables) ==
  [tableData |-> tableData,
   height |-> buildingHeight(tableData.recordCount),
   position |-> createBuilding(index, totalTables),
   blocks |-> createDataBlocks(tableData)]

\* createBuildings: tablesData.forEach((tableData, index) => new DatabaseBuilding(...))
createBuildings(tables) ==
  [i \in 1..Len(tables) |-> DatabaseBuilding(tables[i], i - 1, Len(tables))]

\* createDataNodes of the node scene: angle as above, radius 20 + recordCount/100*10
\* and y = 2 + recordCount/50, in hundredths
NodePosition(tableData, i, total) ==
  [ang |-> BuildingAngle(i, total), rad |-> 2000 + tableData.recordCount.n * 10,
   y |-> 200 + tableData.recordCount.n * 2]

\* createDataNodes of the mock scene: (Math.random() - 0.5) * 80 and
\* 1 + Math.random() * 8, in tenths, for the draw rnd
MockNodePosition(rnd) ==
  [x |-> (rnd - 5) * 80, y |-> 100 + rnd * 8, z |-> (rnd - 5) * 80]

\* where a scene built from tables with the draws rnd puts its objects
SceneLayout(v, tables, rnd) ==
  IF v = "building"
  THEN [i \in 1..Len(tables) |->
          [height |-> createBuildings(tables)[i].height,
           position |-> createBuildings(tables)[i].position,
           blocks |-> createBuildings(tables)[i].blocks]]
  ELSE IF v = "node"
  THEN [i \in 1..Len(tables) |-> NodePosition(tables[i], i - 1, Len(tables))]
  ELSE [i \in 1..Len(tables) |-> MockNodePosition(rnd)]

\* a table's response { data, count } turned into the entry of validResults
TableDataOf(name, count, data) ==
  [tableName |-> name, recordCount |-> RecordCountOf(count), sampleData |-> data]

(* ----------------------- units called directly ------------------------ *)
\* the values a caller can pass as tableData.sampleData: absent ones, an array of
\* records, an array holding null, and values that are no array at all
SampleDataValues ==
  { UndefinedValue, Null, Num(0), Num(5),
    [t |-> "string", n |-> 0], [t |-> "string", n |-> 3], [t |-> "object", n |-> 0],
    [t |-> "array", n |-> 0], [t |-> "array", n |-> 2], [t |-> "arrayOfNull", n |-> 1] }

\* createDataBlocks throws a TypeError: sampleData.forEach is not a function for a
\* truthy value that is no array, record.id of null for a null element
createDataBlocksThrows(sampleData) ==
  Truthy(sampleData) /\ sampleData.t # "array"

\* new DatabaseBuilding(tableData, ...): createBuilding, then createDataBlocks, which
\* returns at once for a falsy sampleData and makes one block per element otherwise;
\* a constructor that throws yields no building to add to the scene
NewDatabaseBuilding(sampleData) ==
  [called |-> TRUE, sampleData |-> sampleData,
   threw |-> createDataBlocksThrows(sampleData),
   blocks |-> IF Truthy(sampleData) /\ ~createDataBlocksThrows(sampleData)
              THEN sampleData.n ELSE 0,
   placed |-> ~createDataBlocksThrows(sampleData)]

\* a caller constructs a DatabaseBuilding from a tableData of its own
Construct(sampleData) ==
  /\ variant = "building"
  /\ constructed' = NewDatabaseBuilding(sampleData)
  /\ UNCHANGED <<variant, buildingFile, animVars, lastCall, hashed, hud, freeLook, reactVars, sceneVars,
                 camVars, envVars, pickVars, obsVars>>

\* the least and the greatest signed 32-bit integer
MinInt32 == 0 - 2147483647 - 1
MaxInt32 == 2147483647

\* the upper and lower 16 bits of a signed 32-bit integer read as unsigned
HighWord(hash) ==
  IF hash < 0 THEN ((hash - MinInt32) \div 65536) + 32768 ELSE hash \div 65536
LowWord(hash) ==
  IF hash < 0 THEN (hash - MinInt32) % 65536 ELSE hash % 65536

\* ToInt32 of the unsigned 32-bit value high * 2^16 + low
Int32Of(high, low) ==
  IF high >= 32768 THEN (high - 65536) * 65536 + low ELSE high * 65536 + low

\* one round of the loop of hashCode: hash = ((hash << 5) - hash) + char;
\* hash = hash & hash.  (hash << 5) - hash + char is exact in a double and
\* congruent to hash * 31 + char modulo 2^32; hash & hash is ToInt32 of it.
\* The product is taken on 16-bit words so that no intermediate exceeds 32 bits.
hashRound(hash, char) ==
  LET low == LowWord(hash) * 31 + char
      high == HighWord(hash) * 31 + (low \div 65536)
  IN Int32Of(high % 65536, low % 65536)

\* hashCode(str): the loop over str.charCodeAt(i), starting from hash = 0
RECURSIVE hashCode(_)
hashCode(str) ==
  IF str = <<>> THEN 0
  ELSE hashRound(hashCode(SubSeq(str, 1, Len(str) - 1)), str[Len(str)])

\* a hue taken with the remainder alone, hash % 360, whose sign is that of hash;
\* used to test the hue range
HueOfSigned(hash) ==
  IF hash >= 0 THEN hash % 360
  ELSE IF hash = MinInt32 THEN 0 - (((MaxInt32 % 360) + 1) % 360)
  ELSE 0 - ((0 - hash) % 360)

\* Math.abs(hash) % 360; Math.abs(-2^31) is the double 2^31
HueOf(hash) ==
  IF hash >= 0 THEN hash % 360
  ELSE IF hash = MinInt32 THEN ((MaxInt32 % 360) + 1) % 360
  ELSE (0 - hash) % 360

\* getBlockColor: new THREE.Color().setHSL(hue / 360, 0.7, 0.6).getHex(), kept as
\* the hue it is computed from (saturation and lightness are constants)
getBlockColor(str) == [hue |-> HueOf(hashCode(str))]

\* JSON.stringify({ id: "dGeSxqw" }), as UTF-16 code units
MinHashRecord ==
  <<123, 34, 105, 100, 34, 58, 34, 100, 71, 101, 83, 120, 113, 119, 34, 125>>
\* JSON.stringify({ id: "u1" })
UserRecord == <<123, 34, 105, 100, 34, 58, 34, 117, 49, 34, 125>>
\* length of the strings over HashChars explored
MaxStrLen == 2
\* the code units " a } and the greatest code unit
HashChars == {34, 97, 125, 65535}
RECURSIVE StringsUpTo(_)
StringsUpTo(n) ==
  IF n = 0 THEN {<<>>}
  ELSE StringsUpTo(n - 1)
         \cup { Append(str, c) : str \in StringsUpTo(n - 1), c \in HashChars }
\* the serialized records getBlockColor is called with
SerializedRecords == StringsUpTo(MaxStrLen) \cup {MinHashRecord, UserRecord}

\* a block's color is computed from its serialized record
HashRecord(str) ==
  /\ variant = "building"
  /\ hashed' = [called |-> TRUE, str |-> str, hash |-> hashCode(str),
                color |-> getBlockColor(str)]
  /\ UNCHANGED <<variant, buildingFile, animVars, lastCall, constructed, hud, freeLook, reactVars,
                 sceneVars, camVars, envVars, pickVars, obsVars>>

(* --------------------------- DatabaseControls -------------------------- *)
\* the onTableSelect prop DatabaseControls receives: TronGame renders
\* <DatabaseControls tablesData selectedTable onCreateTable onRefresh /> and passes none
onTableSelectPassed == FALSE

\* onClick={() => onTableSelect(table.tableName)} of the i-th entry of the table list;
\* calling the undefined prop throws a TypeError.  Nothing calls setSelectedTable and
\* no handler of the scene takes a target to look at.
TableListClick(i) ==
  /\ variant = "building" /\ ~loading /\ ~unmounted /\ ~pendingClick
  /\ i \in 1..Len(tablesData)
  /\ hud' = [hud EXCEPT !.clicked = tablesData[i].tableName,
                        !.threw = ~onTableSelectPassed]
  /\ UNCHANGED <<variant, buildingFile, animVars, lastCall, constructed, hashed, freeLook,
                 reactVars, sceneVars, camVars, envVars, pickVars, obsVars>>

(* ------------------------- free-look TronGame ------------------------- *)
\* mouseX, mouseY and camera.rotation are exact decimals.  Their unit is
\* mouseSensitivity (0.0001 rad) before the first frame and a tenth of the
\* previous unit after every frame, so that after n frames the value v stands
\* for v * 0.0001 / 10^n and a multiplication by 0.9 loses nothing.
RECURSIVE Pow10(_)
Pow10(n) == IF n = 0 THEN 1 ELSE 10 * Pow10(n - 1)

\* frames of the free-look animation explored
MaxDampFrames == 3
\* event.clientX - window.innerWidth / 2 and event.clientY - window.innerHeight / 2
\* of the mousemove events, in pixels
FreeLookOffsets == {0 - 2, 0, 1, 3}

\* handleMouseMove: mouseX = (event.clientX - window.innerWidth / 2) * mouseSensitivity
FreeLookMouseMove(dx, dy) ==
  /\ variant = "mock" /\ scene.live
  /\ <<dx * Pow10(freeLook.frames), dy * Pow10(freeLook.frames)>>
       # <<freeLook.mouseX, freeLook.mouseY>>
  /\ freeLook' = [freeLook EXCEPT !.mouseX = dx * Pow10(freeLook.frames),
                                  !.mouseY = dy * Pow10(freeLook.frames)]
  /\ UNCHANGED <<variant, buildingFile, animVars, lastCall, constructed, hashed, hud, reactVars,
                 sceneVars, camVars, envVars, pickVars, obsVars>>

\* mouseX *= 0.9, the result in the unit of the next frame
Damped(v, frames) == v * 9

\* animate: camera.rotation.y += mouseX; camera.rotation.x += mouseY;
\* mouseX *= 0.9; mouseY *= 0.9
FreeLookAnimate ==
  /\ variant = "mock" /\ scene.live
  /\ freeLook.frames < MaxDampFrames
  /\ freeLook' = [mouseX |-> Damped(freeLook.mouseX, freeLook.frames),
                  mouseY |-> Damped(freeLook.mouseY, freeLook.frames),
                  rotationX |-> (freeLook.rotationX + freeLook.mouseY) * 10,
                  rotationY |-> (freeLook.rotationY + freeLook.mouseX) * 10,
                  frames |-> freeLook.frames + 1]
  /\ UNCHANGED <<variant, buildingFile, animVars, lastCall, constructed, hashed, hud, reactVars,
                 sceneVars, camVars, envVars, pickVars, obsVars>>

(* --------------------------- specifications --------------------------- *)
\* pointer positions and wheel deltas of the application-level specification
AppPoints == { <<0, 0>>, <<50, 0>> }
AppWheelDeltas == { 500 }
\* pointer positions of the click gestures: at rest, 1px away, 50px away
PickPoints == { <<0, 0>>, <<0, 1>>, <<50, 0>> }
\* the list the building scene is given when its blocks are picked
APIResults == { <<Users>>, <<Users, Posts>> }

\* the application: fetches, refreshes, unmount, frames, pointer gestures, zoom
Next ==
  \/ Refresh
  \/ \E id \in 1..MaxFetches, r \in FetchResults : FetchResolve(id, r)
  \/ \E id \in 1..MaxFetches : FetchFail(id)
  \/ Unmount
  \/ \E h \in rafPending : RenderTick(h)
  \/ MouseDown
  \/ MouseUp
  \/ \E p \in AppPoints : MouseMove(p)
  \/ Click(<<>>)
  \/ \E d \in AppWheelDeltas : Wheel(d)

Spec == Init /\ [][Next]_vars

\* one scene instance under every camera input
NextCamera ==
  \/ \E id \in 1..MaxFetches, r \in FetchResults : FetchResolve(id, r)
  \/ MouseDown
  \/ MouseUp
  \/ \E p \in Points : MouseMove(p)
  \/ Click(<<>>)
  \/ \E d \in WheelDeltas : Wheel(d)
  \/ \E code \in KeyCodes : KeyDown(code)

SpecCamera == Init /\ [][NextCamera]_vars

\* one scene instance under click gestures
NextPick ==
  \/ \E id \in 1..MaxFetches, r \in FetchResults : FetchResolve(id, r)
  \/ MouseDown
  \/ MouseUp
  \/ \E p \in PickPoints : MouseMove(p)
  \/ \E hits \in RayHits(Candidates) : Click(hits)

SpecPick == Init /\ [][NextPick]_vars

\* the building scene with DatabaseBuilding.handleClick called on its blocks
NextAPI ==
  \/ Refresh
  \/ \E id \in 1..MaxFetches, r \in APIResults : FetchResolve(id, r)
  \/ Unmount
  \/ \E b \in 1..Len(scene.tables), obj \in SceneObjects : DatabaseBuildingHandleClick(b, obj)
  \/ TimerFire

SpecAPI == Init /\ [][NextAPI]_vars

\* the counts and sample records the layout is tried on
MaxSamples == 9
LayoutCounts ==
  { NaN, Null, UndefinedValue, Num(0 - 4), Num(0), Num(8), Num(39), Num(40), Num(41),
    Num(120), Num(160), Num(161), Num(1000) }
Sample(n) == [j \in 1..n |-> [hasId |-> (j % 2 = 1), id |-> ToString(j)]]
\* .limit(50) of the table queries
FetchLimit == 50
LayoutResults ==
  {<<>>, <<Users, Posts>>, <<Users, Posts, TableDataOf("comments", Num(40), Sample(2))>>,
   <<TableDataOf("orders", Num(FetchLimit), Sample(FetchLimit))>>}
    \cup { <<TableDataOf("users", c, Sample(n))>> : c \in LayoutCounts, n \in {0, MaxSamples} }

\* scenes built from lists of every count and size
NextLayout ==
  \/ Refresh
  \/ \E id \in 1..MaxFetches, r \in LayoutResults : FetchResolve(id, r)

SpecLayout == Init /\ [][NextLayout]_vars

\* the units exercised directly
NextUnits ==
  \/ \E sampleData \in SampleDataValues : Construct(sampleData)
  \/ \E str \in SerializedRecords : HashRecord(str)
SpecUnits == Init /\ [][NextUnits]_vars

\* the free-look TronGame: pointer moves and animation frames
NextFreeLook ==
  \/ \E dx, dy \in FreeLookOffsets : FreeLookMouseMove(dx, dy)
  \/ FreeLookAnimate
SpecFreeLook == Init /\ [][NextFreeLook]_vars

\* Date.now() at the frames explored, in milliseconds
ClockTimes == {1047, 2094, 4189}
\* the building scene animated while time passes
NextUpdate ==
  \/ Refresh
  \/ \E id \in 1..MaxFetches, r \in APIResults : FetchResolve(id, r)
  \/ \E t \in ClockTimes : TimePasses(t)
  \/ \E h \in rafPending : RenderTick(h)
SpecUpdate == Init /\ [][NextUpdate]_vars

\* the building scene with its HUD table list
NextHUD ==
  \/ Refresh
  \/ \E id \in 1..MaxFetches, r \in FetchResults : FetchResolve(id, r)
  \/ \E id \in 1..MaxFetches : FetchFail(id)
  \/ Unmount
  \/ \E i \in 1..Len(tablesData) : TableListClick(i)
  \/ \E d \in AppWheelDeltas : Wheel(d)
SpecHUD == Init /\ [][NextHUD]_vars

(* ------------------------------ properties ---------------------------- *)
\* a click event is dispatched in this step
ClickStep == pendingClick /\ ~pendingClick'

\* C1: a click that ends a gesture of 50px or more of pointer travel produces no
\* pick: the selection after the click is the selection before it.
C1_DragSuppressesPick ==
  [][(ClickStep /\ moved = 50) => selected' = selected]_vars

\* C2: in the building scene, a click that ends a gesture of less than 2px of
\* pointer travel and whose ray meets a block calls the record callback with that
\* block's table, record id and record.
C2_ClickPicksBlock ==
  [][(ClickStep /\ variant = "building" /\ scene.live /\ moved < 2 /\ lastHits' # <<>>)
       => selected' = handleRecordClick(lastHits'[1])]_vars

\* the orbit radius: the closure variable of the building scene, the horizontal
\* distance of the camera in the node and mock scenes
OrbitRadius == IF variant = "building" THEN cameraRadius ELSE HorizRadius(camera)

\* C3: in every state of a live scene the orbit radius is within
\* [MinRadius, MaxRadius] and the pitch within [-MaxPitch, MaxPitch], and every
\* wheel delta that would carry the radius (every pointer delta that would carry
\* the pitch) past a boundary yields exactly that boundary.
C3_RadiusPitchClamped ==
  scene.live =>
    /\ MinRadius(variant) <= OrbitRadius /\ OrbitRadius <= MaxRadius(variant)
    /\ 0 - MaxPitch <= cameraAngleX /\ cameraAngleX <= MaxPitch
    /\ \A d \in WheelDeltas :
         /\ OrbitRadius + WheelStep(variant, d) >= MaxRadius(variant)
              => NewRadius(variant, OrbitRadius, d) = MaxRadius(variant)
         /\ OrbitRadius + WheelStep(variant, d) <= MinRadius(variant)
              => NewRadius(variant, OrbitRadius, d) = MinRadius(variant)
    /\ \A p \in Points :
         /\ cameraAngleX - (p[2] - lastMouseY) * 5 >= MaxPitch
              => NewPitch(cameraAngleX, p[2] - lastMouseY) = MaxPitch
         /\ cameraAngleX - (p[2] - lastMouseY) * 5 <= 0 - MaxPitch
              => NewPitch(cameraAngleX, p[2] - lastMouseY) = 0 - MaxPitch

\* C3 witness: the building scene zoomed out to the largest radius while pitched
\* to the lowest angle
C3_AtBoundaries ==
  /\ variant = "building" /\ scene.live
  /\ cameraRadius = MaxRadius(variant) /\ cameraAngleX = 0 - MaxPitch

C5_YawFollowsPointer ==
  /\ [](scene.live /\ isMouseDown
          => dragYaw = 0 - (pointer[1] - downX) * Sensitivity(variant))
  /\ [][(pointer' # pointer /\ scene.live)
          => IF isMouseDown
             THEN cameraAngleY' =
                    cameraAngleY - (pointer'[1] - pointer[1]) * Sensitivity(variant)
             ELSE UNCHANGED <<cameraAngleY, cameraAngleX, cameraRadius, camera>>]_vars

\* C5 witness: a drag of the building scene from x = 0 has reached x = 50
C5_Dragged ==
  /\ variant = "building" /\ scene.live /\ isMouseDown
  /\ downX = 0 /\ pointer[1] = 50 /\ dragYaw = 0 - 250

\* a step in which an input event changes the camera state of a live scene
CameraInputStep ==
  /\ scene.live /\ scene' = scene
  /\ <<cameraAngleY, cameraAngleX, cameraRadius, camera>>'
       # <<cameraAngleY, cameraAngleX, cameraRadius, camera>>

\* the height of the point at (pitch, radius) on the sphere around (0, target, 0)
SphericalY(pitch, radius, target) == SinMilli(pitch) * radius + 1000 * target

\* C6: after every input event that changes the camera of the building scene, the
\* camera is at the spherical position of (yaw, pitch, radius) around the look-at
\* target, and lookAt on that target has been applied at that position.
C6_CameraOnSphere ==
  [][(CameraInputStep /\ variant = "building")
       => /\ camera'.h = OrbitH(cameraAngleY', cameraAngleX', cameraRadius')
          /\ camera'.y = SphericalY(cameraAngleX', cameraRadius', HandlerTarget(variant))
          /\ camera'.look = [target |-> HandlerTarget(variant), h |-> camera'.h,
                             y |-> camera'.y]]_vars

\* C7: a refresh that replaces the list of a live scene leaves yaw, pitch and
\* radius unchanged.
C7_RefreshKeepsCamera ==
  [][(scene.live /\ scene'.live /\ scene'.gen # scene.gen)
       => UNCHANGED <<cameraAngleY, cameraAngleX, cameraRadius>>]_vars

\* C8: every pending highlight timeout belongs to a block of the live scene: none
\* survives the teardown of the scene whose block it reverts.
C8_TimersCancelledAtTeardown ==
  \A i \in 1..Len(timers) : scene.live /\ timers[i].block.gen = scene.gen

\* C9: for a live scene, with the mount div present or gone, the cleanup run twice
\* throws in neither run and leaves what one run leaves.
C9_CleanupIdempotent ==
  scene.live =>
    \A mount \in {0, mountRef} :
      LET once == cleanup(variant, World(mount))
          twice == cleanup(variant, once)
      IN ~once.threw /\ ~twice.threw /\ twice = once

\* C10: at most one frame callback is scheduled, it is the one whose handle
\* animationIdRef holds, and none is scheduled without a live scene.
C10_OneFrameLoop ==
  /\ Cardinality(rafPending) <= 1
  /\ rafPending # {} => rafPending = {animationIdRef}
  /\ ~scene.live => rafPending = {}

\* C10 witness: after a refresh the second scene has run a frame, and the first
\* scene's loop is gone
C10_SecondLoopRuns ==
  scene.live /\ scene.gen = 2 /\ animationIdRef = <<2, 2>> /\ rafPending = {<<2, 2>>}

\* buildingsRef.current: the buildings createBuildings made the last time the effect
\* body ran (the effect's early return leaves the ref as it was)
buildingsRef ==
  IF variant = "building"
  THEN [i \in 1..Len(scene.tables) |->
          [gen |-> scene.gen, index |-> i - 1, tableData |-> scene.tables[i],
           height |-> createBuildings(scene.tables)[i].height,
           position |-> createBuildings(scene.tables)[i].position,
           blocks |-> createBuildings(scene.tables)[i].blocks]]
  ELSE <<>>

\* C11: once a fetch of the building scene has completed and rendered, the
\* buildings held correspond one-to-one and in order to the entries of tablesData.
C11_VisualsMatchList ==
  (variant = "building" /\ ~unmounted /\ ~loading) =>
    /\ Len(buildingsRef) = Len(tablesData)
    /\ \A i \in 1..Len(buildingsRef) : buildingsRef[i].tableData = tablesData[i]

\* a step in which handleClick schedules a revert, and one in which a revert runs
PickStep == Len(timers') > Len(timers)
RevertStep == Len(timers') < Len(timers)

\* C12 (as stated): the pick callback is invoked after the highlight has reverted:
\* the pick itself leaves the callback's state alone, and the revert of a block of
\* the live scene delivers that block's record.
C12_CallbackAfterRevert ==
  [][/\ PickStep => selected' = selected
     /\ (RevertStep /\ scene.live /\ Head(timers).block.gen = scene.gen)
          => selected' = handleRecordClick(Head(timers).block)]_vars

\* C12 (amended): the pick applies the highlight, schedules the revert with the
\* scale it saw and invokes the callback at once with the block's table, record id
\* and record; the revert restores the saved scale and invokes no callback.
C12_CallbackAtPick ==
  [][/\ PickStep =>
          LET timer == timers'[Len(timers')]
          IN /\ selected' = handleRecordClick(timer.block)
             /\ blockScale'[timer.block] = Highlighted(blockScale[timer.block])
             /\ timer.originalScale = blockScale[timer.block]
     /\ RevertStep =>
          /\ selected' = selected
          /\ Head(timers).block \in DOMAIN blockScale'
               => blockScale'[Head(timers).block] = Head(timers).originalScale]_vars

\* C12 witness: a block was picked, the callback has its record, and the revert
\* has run and left the block at its first scale
C12_PickedAndReverted ==
  /\ scene.live /\ lastCall # <<>> /\ timers = <<>>
  /\ selected # <<>> /\ lastCall[2] \in DOMAIN blockScale
  /\ selected = handleRecordClick(lastCall[2]) /\ blockScale[lastCall[2]] = 100

\* C13: whenever the record callback of the building scene has been invoked, its
\* tableId and recordId are defined and its data is a sample record.
C13_PickFullyPopulated ==
  (variant = "building" /\ selected # <<>>) =>
    /\ selected[1].tableId # Undefined
    /\ selected[1].recordId # Undefined
    /\ \E t \in {Users, Posts} : \E j \in 1..Len(t.sampleData) :
         selected[1].data = t.sampleData[j]

\* the blocks made from the sample records of the b-th entry of the live scene's list
SubBlocksOf(b) ==
  { [gen |-> scene.gen, b |-> b, rec |-> j] : j \in 1..Len(scene.tables[b].sampleData) }

C15_NearestHitSelected ==
  [][(ClickStep /\ variant # "building")
       => IF scene.live /\ lastHits' # <<>>
          THEN selected' = << scene.tables[lastHits'[1].b] >>
          ELSE selected' = selected]_vars

\* C15 witness: the last click's ray met two cubes of different tables and the
\* table of the nearer one is selected
C15_NearerOfTwo ==
  /\ variant = "node" /\ scene.live /\ ~pendingClick
  /\ Len(lastHits) = 2 /\ lastHits[1].b # lastHits[2].b
  /\ selected = << scene.tables[lastHits[1].b] >>

\* the buildings of a live building scene
LiveBuildings ==
  IF variant = "building" /\ scene.live THEN DOMAIN buildingsRef ELSE {}

\* C16: every building's height is a number within [20, 80], it is 20 for
\* recordCount 8 and 60 for recordCount 120, it is recordCount * 0.5 clamped to
\* [20, 80], and no smaller count yields a taller building.
C16_HeightClampedMonotone ==
  \A i \in LiveBuildings :
    LET h == buildingsRef[i].height
        rc == buildingsRef[i].tableData.recordCount
    IN /\ h.t = "number" /\ 200 <= h.n /\ h.n <= 800
       /\ rc = Num(8) => h = Num(200)
       /\ rc = Num(120) => h = Num(600)
       /\ rc.t = "number" => h.n = Clamp(200, 800, rc.n * 5)
       /\ \A c \in LayoutCounts :
            (c.t = "number" /\ rc.t = "number" /\ c.n <= rc.n)
              => buildingHeight(c).n <= h.n

\* C16 witness: the buildings of users (8 records) and posts (120 records) stand
\* with heights 20 and 60
C16_UsersAndPosts ==
  /\ variant = "building" /\ scene.live /\ Len(buildingsRef) = 2
  /\ buildingsRef[1].tableData.recordCount = Num(8) /\ buildingsRef[1].height = Num(200)
  /\ buildingsRef[2].tableData.recordCount = Num(120) /\ buildingsRef[2].height = Num(600)

C18_PlacedOnCircle ==
  /\ createBuildings(<<>>) = <<>>
  /\ \A i \in LiveBuildings :
       /\ buildingsRef[i].position.ang = ((i - 1) * TwoPi) \div Len(buildingsRef)
       /\ buildingsRef[i].position.ang < TwoPi
       /\ buildingsRef[i].position.rad = 60 /\ buildingsRef[i].position.y = 0
       /\ \A k \in LiveBuildings :
            k # i => buildingsRef[k].position # buildingsRef[i].position

\* C18 witness: three buildings stand a third of a turn apart
C18_ThreeBuildings ==
  /\ variant = "building" /\ scene.live /\ Len(buildingsRef) = 3
  /\ buildingsRef[1].position.ang = 0 /\ buildingsRef[2].position.ang = 2094
  /\ buildingsRef[3].position.ang = 4188

\* C19: the layout of a live scene is the layout any build from the same list
\* yields, whatever Math.random returns during the build.
C19_LayoutDeterministic ==
  scene.live =>
    \A r \in RandomDraws :
      SceneLayout(variant, scene.tables, r) = SceneLayout(variant, scene.tables, scene.rnd)

\* the grid slots blocks can stand on, per source file: x and z in hundredths
SlotXs == IF buildingFile = "part_001" THEN {0 - 300, 0, 300} ELSE {0 - 200, 200}
SlotZs == IF buildingFile = "part_001" THEN {0 - 150, 150} ELSE {0 - 200, 200}

\* C20: within a building, blocks of different sample records stand at different
\* positions; blocks in the same slot (index mod recordsPerFloor) share x and z and
\* differ in y by floor (index div recordsPerFloor); x and z only take the slot values.
C20_BlocksDoNotCollide ==
  \A i \in LiveBuildings :
    LET blocks == buildingsRef[i].blocks
    IN \A j \in DOMAIN blocks :
         /\ blocks[j].x \in SlotXs /\ blocks[j].z \in SlotZs
         /\ \A k \in DOMAIN blocks :
              /\ j # k => blocks[j] # blocks[k]
              /\ (j - 1) % recordsPerFloor = (k - 1) % recordsPerFloor
                   => blocks[j].x = blocks[k].x /\ blocks[j].z = blocks[k].z
              /\ (j - 1) \div recordsPerFloor < (k - 1) \div recordsPerFloor
                   => blocks[j].y < blocks[k].y
              /\ (j - 1) \div recordsPerFloor = (k - 1) \div recordsPerFloor
                   => blocks[j].y = blocks[k].y

\* C20 witness: a building holds nine blocks, the first and the ninth in the same
\* slot on different floors
C20_SecondFloorUsed ==
  /\ variant = "building" /\ scene.live /\ Len(buildingsRef) = 1
  /\ Len(buildingsRef[1].blocks) >= 9
  /\ buildingsRef[1].blocks[1].x = buildingsRef[1].blocks[9].x
  /\ buildingsRef[1].blocks[1].y < buildingsRef[1].blocks[9].y

\* C21: a DatabaseBuilding constructed with a sampleData that is absent or is no
\* array of records has no blocks, is placed, and its constructor did not throw.
C21_MalformedSamplesYieldNoBlocks ==
  (constructed.called /\ constructed.sampleData.t # "array")
    => ~constructed.threw /\ constructed.blocks = 0 /\ constructed.placed

\* C22: every block of a live building scene carries as recordId its record's id
\* when the record has one, and the record's index in sampleData otherwise.
C22_RecordIdIsIdOrIndex ==
  (variant = "building" /\ scene.live) =>
    \A b \in 1..Len(scene.tables) :
      \A j \in 1..Len(scene.tables[b].sampleData) :
        LET record == scene.tables[b].sampleData[j]
        IN RecordIdOf(record, j - 1)
             = IF record.hasId THEN record.id ELSE ToString(j - 1)

\* C23: for every serialized record the hash after each character is a signed
\* 32-bit integer equal to hash * 31 + charCode truncated to 32 bits, the hue is
\* within [0, 360), the hash -2^31 included, and the color recorded for a string is
\* the color getBlockColor yields for that string.
C23_HueInRange ==
  hashed.called =>
    /\ \A k \in 1..Len(hashed.str) :
         LET before == hashCode(SubSeq(hashed.str, 1, k - 1))
             after == hashCode(SubSeq(hashed.str, 1, k))
         IN /\ MinInt32 <= after /\ after <= MaxInt32
            /\ (Abs(before) < 65536)
                 => after = before * 31 + hashed.str[k]
            /\ LowWord(after) = (LowWord(before) * 31 + hashed.str[k]) % 65536
    /\ hashed.hash = hashCode(hashed.str)
    /\ hashed.color.hue >= 0 /\ hashed.color.hue < 360
    /\ hashed.color = getBlockColor(hashed.str)
    /\ hashed.hash = MinInt32 => hashed.color.hue = 128

\* C23 witness: a record whose hash is -2^31 has been colored
C23_MinHashColored ==
  hashed.called /\ hashed.hash = MinInt32 /\ hashed.color.hue = 128

\* C24: a free-look velocity smaller than the velocity of a pointer one pixel off
\* the centre (the least a pointer move can set), which only damping produces,
\* is zero: the animation treats a velocity below that threshold as zero.
C24_SmallVelocityIsZero ==
  /\ Abs(freeLook.mouseX) < Pow10(freeLook.frames) => freeLook.mouseX = 0
  /\ Abs(freeLook.mouseY) < Pow10(freeLook.frames) => freeLook.mouseY = 0

\* a frame of the animation loop
UpdateStep == \E h \in rafPending : RenderTick(h)

\* C25: whatever frames have run, the blocks animated are those of the live
\* scene's sample records, each at the x and z its layout gave it and with a y
\* within the float amplitude of its layout y; a frame changes neither the scene's
\* list (positions, heights and record identities derive from it) nor the selection.
C25_UpdateKeepsLayout ==
  /\ [](\A b \in DOMAIN blockAnim :
          /\ variant = "building" /\ scene.live /\ b \in BlocksOf(scene.gen, scene.tables)
          /\ blockAnim[b].x = BlockPosition(b.rec - 1).x
          /\ blockAnim[b].z = BlockPosition(b.rec - 1).z
          /\ Abs(blockAnim[b].y - BlockPosition(b.rec - 1).y) <= FloatAmplitude
          /\ blockAnim[b].baseY \in {0, BlockPosition(b.rec - 1).y})
  /\ [](variant = "building" /\ scene.live
          => DOMAIN blockAnim = BlocksOf(scene.gen, scene.tables))
  /\ [][UpdateStep => /\ DOMAIN blockAnim' = DOMAIN blockAnim
                      /\ UNCHANGED <<scene, tablesData, selected, blockScale>>]_vars

\* C25 witness: a block that has been animated is off its layout y, by the full
\* amplitude, with its layout y kept as baseY
C25_BlockFloats ==
  \E b \in DOMAIN blockAnim :
    /\ blockAnim[b].baseY = BlockPosition(b.rec - 1).y
    /\ Abs(blockAnim[b].y - blockAnim[b].baseY) = FloatAmplitude

\* C26: once an entry of the HUD table list has been clicked, that table is the
\* selected table, the camera target is that table's building, and the click
\* raised no error.
C26_FocusEntity ==
  hud.clicked # "none" =>
    /\ hud.selectedTable = hud.clicked
    /\ hud.target = hud.clicked
    /\ ~hud.threw

\* C29: once every fetchTableData call has resolved, the list displayed is the
\* result of the call started last.
C29_LatestRefreshShown ==
  (variant = "building" /\ ~unmounted /\ inFlight = {} /\ shownFetch # 0)
    => shownFetch = started

\* C28: once every revert timer has fired, every block has the scale it had
\* before its first pick (1, the scale createDataBlocks leaves it with).
C28_ScaleRestoredAfterPicks ==
  timers = <<>> => \A b \in DOMAIN blockScale : blockScale[b] = 100

\* a drag move or a rotation key handled by the live scene: the yaw or the pitch changes
RotateStep ==
  /\ scene.live /\ scene' = scene
  /\ cameraAngleY' # cameraAngleY \/ cameraAngleX' # cameraAngleX

\* C30: a drag move or a rotation key leaves the orbit radius as the preceding
\* wheel events (or the scene's construction) set it, in every scene variant.
C30_RotationKeepsRadius ==
  [][RotateStep => OrbitRadius' = OrbitRadius]_vars

\* new THREE.BoxGeometry(15, this.buildingHeight, 15): half the footprint, in hundredths
HalfFootprint == 750
\* blockSize / 2, in hundredths: 0.6 (part_000), 0.75 (part_001)
HalfBlockSize == IF buildingFile = "part_001" THEN 75 ELSE 60

\* C27: in every building whose table has at least as many records as samples and
\* at most 50 samples, every block lies within the 15 x 15 footprint and its top
\* (y + blockSize / 2) does not exceed the building's height.
C27_BlocksInsideBuilding ==
  \A i \in LiveBuildings :
    LET building == buildingsRef[i]
        samples == Len(building.tableData.sampleData)
    IN (building.tableData.recordCount.n >= samples /\ samples <= FetchLimit)
         => \A j \in DOMAIN building.blocks :
              /\ Abs(building.blocks[j].x) + HalfBlockSize <= HalfFootprint
              /\ Abs(building.blocks[j].z) + HalfBlockSize <= HalfFootprint
              /\ building.blocks[j].y + HalfBlockSize <= building.height.n * 10

====
